---- MODULE Spec2Model ----
(***************************************************************************)
(* Model of the checkpoint / log bookkeeping of                            *)
(* Projects/Collaborate_Compete (data_handling.py: Saver, Logger; main.py: *)
(* train).  Text is modelled as sequences of one-character strings so that *)
(* substring tests, regular-expression searches, number formatting and     *)
(* number parsing are computed the way the Python code computes them.      *)
(***************************************************************************)
EXTENDS Integers, Sequences, FiniteSets, TLC

(***************************************************************************)
(* Bounds of the model.                                                    *)
(***************************************************************************)
\* number of Saver constructions (program starts) explored in SpecName
MaxRuns == 3
\* largest number of agents of the multi-agent net (agent_count)
MaxAgents == 2
\* Logger.log calls (timesteps) explored in SpecLog
MaxLogCalls == 3
\* Logger.step calls (episodes) explored in SpecLog
MaxEpisodes == 3
\* Logger.graph calls on one Logger
MaxGraphCalls == 2
\* longest short sequence handed to _moving_avg in SpecAvg
MaxLen == 3
\* largest window handed to _moving_avg in SpecAvg
MaxWindow == 4
\* episodes of the training loop explored in SpecSave
MaxTrainEpisodes == 4

(***************************************************************************)
(* Text helpers: the string operations data_handling.py relies on.         *)
(***************************************************************************)
DigitVal == ("0" :> 0) @@ ("1" :> 1) @@ ("2" :> 2) @@ ("3" :> 3) @@ ("4" :> 4)
            @@ ("5" :> 5) @@ ("6" :> 6) @@ ("7" :> 7) @@ ("8" :> 8) @@ ("9" :> 9)

DigitChar == <<"0", "1", "2", "3", "4", "5", "6", "7", "8", "9">>

IsDigit(c) == c \in DOMAIN DigitVal

\* Python: sub in s
Contains(s, sub) ==
    \E i \in 1..(Len(s) - Len(sub) + 1) : SubSeq(s, i, i + Len(sub) - 1) = sub

\* Python: s.startswith(sub)
StartsWith(s, sub) ==
    Len(sub) <= Len(s) /\ SubSeq(s, 1, Len(sub)) = sub

\* Python: s.endswith(sub)
EndsWith(s, sub) ==
    Len(sub) <= Len(s) /\ SubSeq(s, Len(s) - Len(sub) + 1, Len(s)) = sub

\* Python: int(text) for a text of decimal digits
RECURSIVE IntOfDigits(_)
IntOfDigits(ds) ==
    IF Len(ds) = 0 THEN 0
    ELSE 10 * IntOfDigits(SubSeq(ds, 1, Len(ds) - 1)) + DigitVal[ds[Len(ds)]]

\* the decimal digits of a natural number, most significant first
RECURSIVE DigitsOf(_)
DigitsOf(n) ==
    IF n < 10 THEN <<DigitChar[n + 1]>>
    ELSE Append(DigitsOf(n \div 10), DigitChar[(n % 10) + 1])

\* left-pad a digit text with zeros up to the given width
RECURSIVE ZeroPad(_, _)
ZeroPad(ds, width) ==
    IF Len(ds) >= width THEN ds ELSE ZeroPad(<<"0">> \o ds, width)

\* Python: "{:03d}".format(n)
Format03d(n) == ZeroPad(DigitsOf(n), 3)

\* Python: "{:04d}".format(n)
Format04d(n) == ZeroPad(DigitsOf(n), 4)

\* the longest run of digits of s that starts at position i
RECURSIVE DigitRun(_, _)
DigitRun(s, i) ==
    IF i <= Len(s) /\ IsDigit(s[i]) THEN <<s[i]>> \o DigitRun(s, i + 1)
    ELSE <<>>

\* positions where the pattern _v(\d+) matches in s
VerMatches(s) ==
    {i \in 1..(Len(s) - 2) : s[i] = "_" /\ s[i + 1] = "v" /\ IsDigit(s[i + 2])}

SetMin(S) == CHOOSE x \in S : \A y \in S : x <= y
SetMax(S) == CHOOSE x \in S : \A y \in S : x >= y

\* Python: re.search("_v(\d+)", s): the leftmost match, the digits greedy.
\* matched = FALSE stands for the None that re.search returns.
ReSearchVer(s) ==
    IF VerMatches(s) = {} THEN [matched |-> FALSE, group1 |-> <<>>]
    ELSE [matched |-> TRUE, group1 |-> DigitRun(s, SetMin(VerMatches(s)) + 2)]

(***************************************************************************)
(* Saver.generate_savename                                                 *)
(***************************************************************************)
\* base_name = "{}_{}_v".format(prefix, timestamp)
BaseName(prefix, timestamp) == prefix \o <<"_">> \o timestamp \o <<"_", "v">>

\* files = [f for f in os.listdir(save_dir) if base_name in f]
ScanFiles(entries, base_name) == {f \in entries : Contains(f, base_name)}

\* ver = [int(re.search("_v(\d+)", file).group(1)) for file in files]
VersionOf(file) == IntOfDigits(ReSearchVer(file).group1)

\* generate_savename(prefix, save_dir) on the day `timestamp`, the directory
\* save_dir holding `entries`.  err = "AttributeError" when re.search
\* returns None for a scanned entry (None has no .group).
generate_savename(prefix, entries, timestamp) ==
    LET base_name == BaseName(prefix, timestamp)
        files     == ScanFiles(entries, base_name)
    IN  IF \E f \in files : ~ReSearchVer(f).matched
        THEN [err |-> "AttributeError", ver |-> 0, filename |-> <<>>]
        ELSE LET ver == IF files # {}
                        THEN SetMax({VersionOf(f) : f \in files}) + 1
                        ELSE 1
             IN  [err |-> "none", ver |-> ver,
                  filename |-> base_name \o Format03d(ver)]


(***************************************************************************)
(* More text helpers, used by the resume prompt.                           *)
(***************************************************************************)
UpperCase == <<"A", "B", "C", "I", "Q", "T", "U", "D", "F", "H", "O", "R", "S">>
LowerCase == <<"a", "b", "c", "i", "q", "t", "u", "d", "f", "h", "o", "r", "s">>

LowerChar(c) ==
    IF \E i \in 1..Len(UpperCase) : UpperCase[i] = c
    THEN LowerCase[CHOOSE i \in 1..Len(UpperCase) : UpperCase[i] = c]
    ELSE c

\* Python: s.lower()
Lower(s) == [i \in 1..Len(s) |-> LowerChar(s[i])]

\* Python: s.strip() for blanks
RECURSIVE Strip(_)
Strip(s) ==
    IF Len(s) > 0 /\ s[1] = " " THEN Strip(Tail(s))
    ELSE IF Len(s) > 0 /\ s[Len(s)] = " " THEN Strip(SubSeq(s, 1, Len(s) - 1))
    ELSE s

AllDigits(s) == Len(s) > 0 /\ \A i \in 1..Len(s) : IsDigit(s[i])

\* Python: int(text).  Blanks around the number are ignored, one sign is
\* allowed; anything else raises ValueError (ok = FALSE).
IntParse(text) ==
    LET t    == Strip(text)
        neg  == Len(t) > 0 /\ t[1] = "-"
        sign == Len(t) > 0 /\ t[1] \in {"-", "+"}
        body == IF sign THEN Tail(t) ELSE t
    IN  IF AllDigits(body)
        THEN [ok |-> TRUE,
              val |-> IF neg THEN 0 - IntOfDigits(body) ELSE IntOfDigits(body)]
        ELSE [ok |-> FALSE, val |-> 0]

(***************************************************************************)
(* State.                                                                  *)
(***************************************************************************)
VARIABLES
    saveDirEntries, \* os.listdir(args.save_dir): names of the entries
    treeFiles,      \* files below args.save_dir (os.walk): [path, mtime]
    today,          \* time.strftime("%Y%m%d", time.localtime())
    args,           \* [resume, eval, agent_count]
    pc,             \* position of Saver.__init__, or the exception it raised
    prefix,         \* multi_agent.framework
    files,          \* result of _get_files
    load_file,      \* files selected so far, one per agent
    filename,       \* Saver.filename (<<>> before generate_savename)
    ver,            \* version picked by generate_savename
    loaded,         \* per agent: the file whose weights it loaded (or NoFile)
    before,         \* history: saveDirEntries seen by generate_savename
    prompts,        \* history: agent numbers of the prompts shown
    inputs,         \* history: texts entered at the prompts
    scanned,        \* history: _get_files ran
    dirChecked,     \* history: check_dir(args.save_dir) ran
    runCount,       \* history: number of Saver constructions
    history,        \* history: names generated, [prefix, date, filename, created]
    initialEntries  \* history: saveDirEntries of the initial state

saverVars == <<saveDirEntries, treeFiles, today, args, pc, prefix, files,
               load_file, filename, ver, loaded, before, prompts, inputs,
               scanned, dirChecked, runCount, history, initialEntries>>

VARIABLES
    logPc,        \* "none" before Logger.__init__, "ready" after it ("blank"
                  \* after a blank one), "graphed" after graph()
    logArgs,      \* [eval, print_every, log_every, agent_count]
    rewards,      \* self.rewards, per agent, in hundredths
    scores,       \* self.scores, deque(maxlen=print_every)
    lossfiles,    \* self.lossfiles: agent -> names of its loss files
    logFS,        \* files of the log directory: name -> text
    t_step,       \* multi_agent.t_step
    logCalls,     \* history: number of Logger.log calls
    stepCalls,    \* history: number of Logger.step calls
    episodeScores,\* history: the score of each finished episode, in order
    attrs,        \* names of the attributes the Logger object has
    loggedSince   \* history: per agent, the sum of the rewards handed to
                  \* Logger.log since the last Logger.step (or construction)

loggerVars == <<logPc, logArgs, rewards, scores, lossfiles, logFS, t_step,
                logCalls, stepCalls, episodeScores, attrs, loggedSince>>

VARIABLES
    panels,        \* loss panels plot_logs rendered: [agent, file], in order
    plotErr,       \* "none", or the exception a Logger call ended with
    graphCalls,    \* history: number of Logger.graph calls
    firstLossfiles,\* history: self.lossfiles after the first graph call
    logdir         \* the log directory handed to graph(logdir)

plotVars == <<panels, plotErr, graphCalls, firstLossfiles, logdir>>

VARIABLES
    fnPc,          \* "idle" before a function of fnVars is applied, "done" after
    avgData,       \* _moving_avg: the data argument (hundredths)
    avgAcross,     \* _moving_avg: the avg_across argument (hundredths)
    curve,         \* _moving_avg: the curve returned
    cmdline,       \* gather_args: what the command line gave
    cudaAvailable, \* torch.cuda.is_available()
    gathered       \* gather_args: the args returned, or the error raised

fnVars == <<fnPc, avgData, avgAcross, curve, cmdline, cudaAvailable, gathered>>

VARIABLES
    trainPc,      \* position of train() in main.py
    trainArgs,    \* [save_every, num_episodes, agent_count]
    loopEpisode,  \* the loop variable `episode` of train()
    episode,      \* multi_agent.episode
    weights,      \* version of the agents' networks (grows as they learn)
    ckptFiles,    \* files of Saver.save_dir: path -> [agent, weights]
    writes        \* history: how many times each path was written

ckptVars == <<trainPc, trainArgs, loopEpisode, episode, weights, ckptFiles,
              writes>>

NoFile == [path |-> <<>>, mtime |-> 0]

Date1 == <<"2", "0", "2", "4", "0", "1", "0", "1">>
Date2 == <<"2", "0", "2", "4", "0", "1", "0", "2">>

\* frameworks: an ordinary name, and one that itself holds "_v<digit>"
PlainPrefix == <<"D", "4">>
VersionedPrefix == <<"n", "_", "v", "2">>
Prefixes == {PlainPrefix, VersionedPrefix}

\* entries a save directory may hold before the first run of the model
EntryPool ==
    { BaseName(PlainPrefix, Date1) \o <<"0", "0", "5">>,
      BaseName(VersionedPrefix, Date1) \o <<"0", "0", "5">>,
      BaseName(PlainPrefix, Date1) \o <<"1", "0", "0", "0">>,
      <<"o", "_">> \o BaseName(PlainPrefix, Date1) \o <<"0", "0", "7">>,
      BaseName(PlainPrefix, Date1) \o <<"x">>,
      <<"n", "o", "t", "e", "s">> }

AgentExt == <<".", "a", "g", "e", "n", "t">>

\* files a save directory tree may hold at a resume
FilePool ==
    { [path |-> <<"a">> \o AgentExt, mtime |-> 1],
      [path |-> <<"b">> \o AgentExt, mtime |-> 2],
      [path |-> <<"c">> \o AgentExt, mtime |-> 2],
      [path |-> <<"g", ".", "p", "n", "g">>, mtime |-> 3],
      [path |-> <<"d">> \o AgentExt \o <<"~">>, mtime |-> 4] }

\* texts a user may type at the prompt
InputPool ==
    { <<"q">>, <<"Q">>, <<"q", "u", "i", "t">>, <<"Q", "u", "I", "t">>,
      <<"q", "u", "i", "t", " ">>, <<"a", "b", "c">>, <<>>,
      <<"0">>, <<"1">>, <<"2">>, <<"3">>, <<"4">>, <<"-", "1">>,
      <<" ", "2">>, <<"1", ".", "0">> }

(***************************************************************************)
(* Saver._get_files                                                        *)
(***************************************************************************)
\* faulty variant of AgentFiles: ".agent" anywhere in the name
AgentFiles_Contains(tree) == {f \in tree : Contains(f.path, AgentExt)}

\* file_list: the files of the tree whose name ends in ".agent"
AgentFiles(tree) == {f \in tree : EndsWith(f.path, AgentExt)}

\* sorted(file_list, key=mtime): os.walk lists in an arbitrary order and the
\* sort is stable, so files of equal mtime come in any order
get_files(tree) ==
    LET S == AgentFiles(tree)
        n == Cardinality(S)
    IN  {s \in [1..n -> S] :
           /\ \A i, j \in 1..n : i # j => s[i] # s[j]
           /\ \A i, j \in 1..n : i < j => s[i].mtime <= s[j].mtime}

(***************************************************************************)
(* Saver._get_filepath                                                     *)
(***************************************************************************)
\* faulty variant of get_filepath: the quit test without .lower()
get_filepath_NoLower(fs, save_file) ==
    IF save_file \in {<<"q">>, <<"q", "u", "i", "t">>}
    THEN [outcome |-> "KeyboardInterrupt", file |-> NoFile]
    ELSE LET parsed     == IntParse(save_file)
             file_index == Len(fs) - parsed.val
         IN  IF parsed.ok /\ file_index >= 0 /\ file_index < Len(fs)
             THEN [outcome |-> "return", file |-> fs[file_index + 1]]
             ELSE [outcome |-> "NameError", file |-> NoFile]

\* faulty variant of get_filepath: the selection counted from the oldest file
get_filepath_FromOldest(fs, save_file) ==
    IF Lower(save_file) \in {<<"q">>, <<"q", "u", "i", "t">>}
    THEN [outcome |-> "KeyboardInterrupt", file |-> NoFile]
    ELSE LET parsed     == IntParse(save_file)
             file_index == parsed.val - 1
         IN  IF parsed.ok /\ file_index >= 0 /\ file_index < Len(fs)
             THEN [outcome |-> "return", file |-> fs[file_index + 1]]
             ELSE [outcome |-> "NameError", file |-> NoFile]

\* one prompt: the outcome of _get_filepath(files, idx) for the text typed.
\* The except branch calls the bare name _get_filepath, which is bound
\* nowhere (it is a method, reached only through self): NameError.
get_filepath(fs, save_file) ==
    IF Lower(save_file) \in {<<"q">>, <<"q", "u", "i", "t">>}
    THEN [outcome |-> "KeyboardInterrupt", file |-> NoFile]
    ELSE LET parsed     == IntParse(save_file)
             file_index == Len(fs) - parsed.val
         IN  IF parsed.ok /\ file_index >= 0 /\ file_index < Len(fs)
             THEN [outcome |-> "return", file |-> fs[file_index + 1]]
             ELSE [outcome |-> "NameError", file |-> NoFile]

(***************************************************************************)
(* Saver.__init__, step by step.                                           *)
(***************************************************************************)
\* __init__ is entered and calls _get_agent_file: the file scan and its
\* assertion when resume or eval is set, otherwise load_file = False
SaverInit(p) ==
    /\ pc = "none"
    /\ runCount < MaxRuns
    /\ prefix' = p
    /\ runCount' = runCount + 1
    /\ IF args.resume \/ args.eval
       THEN /\ scanned' = TRUE
            /\ \E fs \in get_files(treeFiles) :
                 /\ files' = fs
                 /\ pc' = IF Len(fs) > 0 THEN "prompt" ELSE "AssertionError"
       ELSE /\ pc' = "generate_savename"
            /\ UNCHANGED <<scanned, files>>
    /\ UNCHANGED <<saveDirEntries, treeFiles, today, args, load_file, filename,
                   ver, loaded, before, prompts, inputs, dirChecked, history,
                   initialEntries>>
    /\ UNCHANGED <<loggerVars, ckptVars, plotVars, fnVars>>

\* _get_agent_file line 69: the prompt of the next agent, range(agent_count)
GetFilepath(text) ==
    /\ pc = "prompt"
    /\ LET idx == Len(load_file)
           r   == get_filepath(files, text)
       IN  /\ prompts' = Append(prompts, idx + 1)
           /\ inputs' = Append(inputs, text)
           /\ IF r.outcome = "return"
              THEN /\ load_file' = Append(load_file, r.file)
                   /\ pc' = IF idx + 1 = args.agent_count
                            THEN "generate_savename" ELSE "prompt"
              ELSE /\ pc' = r.outcome
                   /\ UNCHANGED load_file
    /\ UNCHANGED <<saveDirEntries, treeFiles, today, args, prefix, files,
                   filename, ver, loaded, before, scanned, dirChecked,
                   runCount, history, initialEntries>>
    /\ UNCHANGED <<loggerVars, ckptVars, plotVars, fnVars>>

\* __init__ lines 39-46: generate_savename, then the branch on load_file
GenerateSavename ==
    /\ pc = "generate_savename"
    /\ LET r == generate_savename(prefix, saveDirEntries, today)
       IN  /\ dirChecked' = TRUE
           /\ before' = saveDirEntries
           /\ IF r.err # "none"
              THEN /\ pc' = r.err
                   /\ UNCHANGED <<filename, ver, history>>
              ELSE /\ filename' = r.filename
                   /\ ver' = r.ver
                   /\ history' = Append(history,
                          [prefix |-> prefix, date |-> today,
                           filename |-> r.filename, created |-> FALSE])
                   /\ pc' = IF Len(load_file) > 0 THEN "load_agent"
                            ELSE "constructed"
    /\ UNCHANGED <<saveDirEntries, treeFiles, today, args, prefix, files,
                   load_file, loaded, prompts, inputs, scanned, runCount,
                   initialEntries>>
    /\ UNCHANGED <<loggerVars, ckptVars, plotVars, fnVars>>

\* _load_agent: agent idx loads load_file[idx]
load_agent(lf, agent_count) == [i \in 1..agent_count |-> lf[i]]

LoadAgent ==
    /\ pc = "load_agent"
    /\ loaded' = load_agent(load_file, args.agent_count)
    /\ pc' = "constructed"
    /\ UNCHANGED <<saveDirEntries, treeFiles, today, args, prefix, files,
                   load_file, filename, ver, before, prompts, inputs, scanned,
                   dirChecked, runCount, history, initialEntries>>
    /\ UNCHANGED <<loggerVars, ckptVars, plotVars, fnVars>>

\* the run directory comes to exist: check_dir(self.log_dir) of a training
\* Logger, or check_dir(self.save_dir) of the first save
check_dir(entries, name) == entries \cup {name}

CreateRunDir ==
    /\ pc = "constructed"
    /\ ~history[Len(history)].created
    /\ saveDirEntries' = check_dir(saveDirEntries, filename)
    /\ history' = [history EXCEPT ![Len(history)].created = TRUE]
    /\ UNCHANGED <<treeFiles, today, args, pc, prefix, files, load_file,
                   filename, ver, loaded, before, prompts, inputs, scanned,
                   dirChecked, runCount, initialEntries>>
    /\ UNCHANGED <<loggerVars, ckptVars, plotVars, fnVars>>

\* the process ends (normally or on the exception); the next start of the
\* program finds the directory as this run left it
ProcessExit ==
    /\ pc \in {"constructed", "AttributeError"}
    /\ pc' = "none"
    /\ prefix' = <<>>
    /\ filename' = <<>>
    /\ ver' = 0
    /\ before' = {}
    /\ dirChecked' = FALSE
    /\ UNCHANGED <<saveDirEntries, treeFiles, today, args, files, load_file,
                   loaded, prompts, inputs, scanned, runCount, history,
                   initialEntries>>
    /\ UNCHANGED <<loggerVars, ckptVars, plotVars, fnVars>>

\* midnight passes between two runs
NextDay ==
    /\ pc = "none"
    /\ today = Date1
    /\ today' = Date2
    /\ UNCHANGED <<saveDirEntries, treeFiles, args, pc, prefix, files,
                   load_file, filename, ver, loaded, before, prompts, inputs,
                   scanned, dirChecked, runCount, history, initialEntries>>
    /\ UNCHANGED <<loggerVars, ckptVars, plotVars, fnVars>>

SaverBlank ==
    /\ pc = "none"
    /\ prefix = <<>>
    /\ files = <<>>
    /\ load_file = <<>>
    /\ filename = <<>>
    /\ ver = 0
    /\ before = {}
    /\ prompts = <<>>
    /\ inputs = <<>>
    /\ scanned = FALSE
    /\ dirChecked = FALSE
    /\ runCount = 0
    /\ history = <<>>


(***************************************************************************)
(* Numbers in the log files.  A score or loss is kept in hundredths (the   *)
(* environment's rewards are multiples of 0.01); str() writes it as        *)
(* decimal text and float() reads the text back.                           *)
(***************************************************************************)
Abs(x) == IF x < 0 THEN 0 - x ELSE x

\* Python: str(x) of a float: sign, integer part, ".", the shortest fraction
\* (at least one digit)
StrFloat(x) ==
    LET whole == Abs(x) \div 100
        frac  == Abs(x) % 100
        sign  == IF x < 0 THEN <<"-">> ELSE <<>>
        fdigs == IF frac % 10 = 0 THEN DigitsOf(frac \div 10)
                 ELSE ZeroPad(DigitsOf(frac), 2)
    IN  sign \o DigitsOf(whole) \o <<".">> \o fdigs

\* position of the first "." of a text, 0 when there is none
DotAt(t) ==
    IF \E i \in 1..Len(t) : t[i] = "."
    THEN SetMin({i \in 1..Len(t) : t[i] = "."})
    ELSE 0

\* Python: float(text) for a decimal text of at most two fraction digits;
\* ok = FALSE stands for ValueError
FloatParse(text) ==
    LET neg   == Len(text) > 0 /\ text[1] = "-"
        body  == IF neg THEN Tail(text) ELSE text
        dot   == DotAt(body)
        whole == SubSeq(body, 1, dot - 1)
        frac  == SubSeq(body, dot + 1, Len(body))
    IN  IF dot > 0 /\ AllDigits(whole) /\ AllDigits(frac) /\ Len(frac) <= 2
        THEN LET mag == 100 * IntOfDigits(whole)
                        + (IF Len(frac) = 1 THEN 10 * IntOfDigits(frac)
                           ELSE IntOfDigits(frac))
             IN  [ok |-> TRUE, val |-> IF neg THEN 0 - mag ELSE mag]
        ELSE [ok |-> FALSE, val |-> 0]

\* Python: text.splitlines()
RECURSIVE SplitLines(_)
SplitLines(t) ==
    IF Len(t) = 0 THEN <<>>
    ELSE IF \E i \in 1..Len(t) : t[i] = "\n"
         THEN LET k == SetMin({i \in 1..Len(t) : t[i] = "\n"})
              IN  <<SubSeq(t, 1, k - 1)>> \o SplitLines(SubSeq(t, k + 1, Len(t)))
         ELSE <<t>>

\* Python: sum(q)
RECURSIVE SeqSum(_)
SeqSum(q) == IF Len(q) = 0 THEN 0 ELSE Head(q) + SeqSum(Tail(q))

(***************************************************************************)
(* Logger.                                                                 *)
(***************************************************************************)
\* agent_count of the net a Logger is built for
LogAgentCounts == {1, 2}

PrintEveryChoices == {1, 2}
LogEveryChoices == {1, 2}
\* values of multi_agent.t_step seen by Logger.log
TStepChoices == {1, 2}

\* rewards of one timestep for one agent (hundredths): miss, nothing, hit
RewardPool == {0 - 1, 0, 10}

\* the reward vectors of one timestep: every agent one of RewardPool
RewardVectors(n) == [1..n -> RewardPool]

ScoresName == <<"_", "s", "c", "o", "r", "e", "s", ".", "t", "x", "t">>
ParamName == <<"_", "L", "O", "G", ".", "t", "x", "t">>

\* _get_agentlog_names(idx, agent), idx counted from 0
get_agentlog_names(idx) ==
    << <<"_", "a", "g", "e", "n", "t">> \o DigitsOf(idx + 1)
          \o <<"_", "a", "c", "t", "o", "r", "l", "o", "s", "s", ".", "t", "x", "t">>,
       <<"_", "a", "g", "e", "n", "t">> \o DigitsOf(idx + 1)
          \o <<"_", "c", "r", "i", "t", "i", "c", "l", "o", "s", "s", ".", "t", "x", "t">> >>

\* open(name, 'a').close(): the file exists afterwards, its text kept
OpenAppendClose(fs, name) ==
    IF name \in DOMAIN fs THEN fs ELSE fs @@ (name :> <<>>)

\* with open(name, 'a') as f: f.write(text)
AppendText(fs, name, text) ==
    IF name \in DOMAIN fs THEN [fs EXCEPT ![name] = @ \o text]
    ELSE fs @@ (name :> text)

\* with open(name, 'w') as f: f.write(text)
WriteText(fs, name, text) ==
    IF name \in DOMAIN fs THEN [fs EXCEPT ![name] = text]
    ELSE fs @@ (name :> text)

\* _reset_rewards: np.zeros(agent_count)
reset_rewards(n) == [i \in 1..n |-> 0]

\* the loss-file names of every agent, in the order _generate_logfiles
\* creates them
RECURSIVE CreateAll(_, _)
CreateAll(fs, names) ==
    IF Len(names) = 0 THEN fs
    ELSE CreateAll(OpenAppendClose(fs, Head(names)), Tail(names))

RECURSIVE AllLossNames(_)
AllLossNames(n) ==
    IF n = 0 THEN <<>> ELSE AllLossNames(n - 1) \o get_agentlog_names(n - 1)

\* _generate_logfiles: the scores file and every loss file opened in append
\* mode and closed
generate_logfiles(fs, n) ==
    CreateAll(OpenAppendClose(fs, ScoresName), AllLossNames(n))

\* _init_logs: the parameter file written anew, then _generate_logfiles
init_logs(fs, params, n) ==
    generate_logfiles(WriteText(fs, ParamName, params), n)

\* the text of the parameter file (one "KEY: VALUE" line)
ParamText == <<"C", ":", " ", "1", "\n">>

\* Python: obj.name, AttributeError when obj has no such attribute
HasAttr(obj, name) == name \in obj

\* attributes of a Logger after a blank __init__ (lines 212-216)
BlankAttrs == {"save_dir", "lossfiles"}

\* attributes of a Logger built for evaluation (lines 217-230)
EvalAttrs ==
    BlankAttrs \cup {"eval", "max_eps", "quietmode", "log_every", "print_every",
                     "framework", "agent_count", "log_dir", "filename",
                     "logs_basename", "start_time", "prev_timestamp", "scores",
                     "rewards"}

\* attributes of a Logger built for training: _init_logs and
\* _generate_logfiles add the file names
TrainAttrs == EvalAttrs \cup {"paramfile", "scoresfile"}

\* Logger.__init__ with a multi_agent and args
LoggerInit(ev, pe, le, n) ==
    /\ logPc = "none"
    /\ logArgs' = [eval |-> ev, print_every |-> pe, log_every |-> le,
                   agent_count |-> n]
    /\ scores' = <<>>
    /\ rewards' = reset_rewards(n)
    /\ IF ~ev
       THEN /\ logFS' = init_logs(logFS, ParamText, n)
            /\ lossfiles' = [i \in 0..(n - 1) |-> get_agentlog_names(i)]
       ELSE UNCHANGED <<logFS, lossfiles>>
    /\ attrs' = IF ev THEN EvalAttrs ELSE TrainAttrs
    /\ loggedSince' = [i \in 1..n |-> 0]
    /\ logPc' = "ready"
    /\ UNCHANGED <<t_step, logCalls, stepCalls, episodeScores>>
    /\ UNCHANGED <<saverVars, ckptVars, plotVars, fnVars>>

\* agent.actor_loss / agent.critic_loss of agent idx at timestep t
ActorLoss(idx, t) == 10 * t + idx
CriticLoss(idx, t) == 100 + 10 * t + idx

\* _write_losses: one line appended to each loss file of each agent.  The
\* value is picked by the substring test on the file name.
RECURSIVE WriteLossFiles(_, _, _, _)
WriteLossFiles(fs, names, idx, t) ==
    IF Len(names) = 0 THEN fs
    ELSE LET name == Head(names)
             loss == IF Contains(name, <<"a", "c", "t", "o", "r", "l", "o", "s", "s">>)
                     THEN ActorLoss(idx, t) ELSE CriticLoss(idx, t)
         IN  WriteLossFiles(AppendText(fs, name, StrFloat(loss) \o <<"\n">>),
                            Tail(names), idx, t)

RECURSIVE WriteLossAgents(_, _, _, _)
WriteLossAgents(fs, lf, n, t) ==
    IF n = 0 THEN fs
    ELSE WriteLossFiles(WriteLossAgents(fs, lf, n - 1, t), lf[n - 1], n - 1, t)

write_losses(fs, lf, n, t) == WriteLossAgents(fs, lf, n, t)

\* Logger.log(rewards, multi_agent): one timestep.  multi_agent.t_step is
\* the agent's own counter, read here: t is its value at this call.
log(rw, t) ==
    /\ logPc = "ready"
    /\ logCalls < MaxLogCalls
    /\ logCalls' = logCalls + 1
    /\ t_step' = t
    /\ rewards' = [i \in DOMAIN rewards |-> rewards[i] + rw[i]]
    /\ loggedSince' = [i \in DOMAIN rw |-> loggedSince[i] + rw[i]]
    /\ IF ~logArgs.eval /\ t_step' % logArgs.log_every = 0
       THEN logFS' = write_losses(logFS, lossfiles, logArgs.agent_count, t_step')
       ELSE UNCHANGED logFS
    /\ UNCHANGED <<logPc, logArgs, scores, lossfiles, stepCalls, episodeScores,
                   attrs>>

\* a Logger.log call on its own (the rest of the program at rest)
Log(rw, t) ==
    /\ log(rw, t)
    /\ UNCHANGED <<saverVars, ckptVars, plotVars, fnVars>>

\* deque.append with maxlen
DequeAppend(d, x, maxlen) ==
    IF Len(d) >= maxlen THEN Tail(Append(d, x)) ELSE Append(d, x)

MaxOf(f) == SetMax({f[i] : i \in DOMAIN f})

\* faulty variant of update_score: the first agent's sum taken for the score
update_score_FirstAgent(sc, rw, maxlen) == DequeAppend(sc, rw[1], maxlen)

\* _update_score: score = self.rewards.max(); self.scores.append(score)
update_score(sc, rw, maxlen) == DequeAppend(sc, MaxOf(rw), maxlen)

\* faulty variant of latest_score: the oldest score of the window, self.scores[0]
latest_score_First(sc) == sc[1]

\* the latest_score property: self.scores[-1]
latest_score(sc) == sc[Len(sc)]

\* faulty variant of write_scores: the scores file opened in 'w' mode
write_scores_Truncate(fs, sc) ==
    WriteText(fs, ScoresName, StrFloat(sc[Len(sc)]) \o <<"\n">>)

\* _write_scores: str(self.latest_score) + '\n' appended to the scores file
write_scores(fs, sc) ==
    AppendText(fs, ScoresName, StrFloat(latest_score(sc)) \o <<"\n">>)

\* Logger.step(eps_num, multi_agent): the end of an episode
Step ==
    /\ logPc = "ready"
    /\ stepCalls < MaxEpisodes
    /\ stepCalls' = stepCalls + 1
    /\ episodeScores' = Append(episodeScores, MaxOf(loggedSince))
    /\ loggedSince' = [i \in DOMAIN loggedSince |-> 0]
    /\ scores' = update_score(scores, rewards, logArgs.print_every)
    /\ rewards' = reset_rewards(logArgs.agent_count)
    /\ IF logArgs.eval
       THEN UNCHANGED logFS
       ELSE logFS' = write_scores(logFS, scores')
    /\ UNCHANGED <<logPc, logArgs, lossfiles, t_step, logCalls, attrs>>
    /\ UNCHANGED <<saverVars, ckptVars, plotVars, fnVars>>

\* plot_logs lines 337-338: the scores file read back
ReadScores(fs) ==
    LET lines == SplitLines(fs[ScoresName])
    IN  [i \in 1..Len(lines) |-> FloatParse(lines[i])]

LoggerBlank ==
    /\ logPc = "none"
    /\ logArgs = [eval |-> FALSE, print_every |-> 1, log_every |-> 1,
                  agent_count |-> 1]
    /\ rewards = <<>>
    /\ scores = <<>>
    /\ lossfiles = <<>>
    /\ logFS = <<>>
    /\ t_step = 0
    /\ logCalls = 0
    /\ stepCalls = 0
    /\ episodeScores = <<>>
    /\ attrs = {}
    /\ loggedSince = <<>>

PlotBlank ==
    /\ panels = <<>>
    /\ plotErr = "none"
    /\ graphCalls = 0
    /\ firstLossfiles = <<>>
    /\ logdir = <<>>

FnBlank ==
    /\ fnPc = "idle"
    /\ avgData = <<>>
    /\ avgAcross = 100
    /\ curve = <<>>
    /\ cmdline = <<>>
    /\ cudaAvailable = FALSE
    /\ gathered = <<>>

(***************************************************************************)
(* Logger.graph, Logger.load_logs, Logger.plot_logs.                       *)
(***************************************************************************)
\* attributes plot_logs sets before it lays out the grid (lines 345-352)
PlotAttrs == {"bg_color", "highlight_color", "highlight_alpha", "ma1_color",
              "ma2_color", "annotate_props"}

\* the lines of a log file as numbers: [float(x) for x in f.read().splitlines()]
ReadFloats(fs, file) ==
    LET lines == SplitLines(fs[file])
    IN  [i \in 1..Len(lines) |-> FloatParse(lines[i])]

\* what opening and plotting one data file ends with
PlotData(fs, file) ==
    IF file \notin DOMAIN fs THEN "FileNotFoundError"
    ELSE LET data == ReadFloats(fs, file)
         IN  IF \E i \in DOMAIN data : ~data[i].ok THEN "ValueError"
             ELSE IF Len(data) = 0 THEN "ValueError"
             ELSE "none"

\* the cells of the loss grid in the order of the loops of lines 374-375:
\* for col in range(1, gs_cols): for row in range(gs_rows), with
\* gs_rows = agent_count and gs_cols = agent_count + 1
PanelCells(n) ==
    [k \in 1..(n * n) |-> [col |-> ((k - 1) \div n) + 1, row |-> (k - 1) % n]]

\* lines 374-381: one panel per cell, its file self.lossfiles[col-1][row]
RECURSIVE plot_losses(_, _, _, _)
plot_losses(fs, lf, cells, drawn) ==
    IF Len(cells) = 0 THEN [err |-> "none", panels |-> drawn]
    ELSE LET c == Head(cells)
         IN  IF (c.col - 1) \notin DOMAIN lf
             THEN [err |-> "KeyError", panels |-> drawn]
             ELSE IF c.row + 1 > Len(lf[c.col - 1])
             THEN [err |-> "IndexError", panels |-> drawn]
             ELSE LET file == lf[c.col - 1][c.row + 1]
                  IN  IF PlotData(fs, file) # "none"
                      THEN [err |-> PlotData(fs, file), panels |-> drawn]
                      ELSE plot_losses(fs, lf, Tail(cells),
                               Append(drawn, [agent |-> c.col - 1, file |-> file]))

\* load_logs: reads self.paramfile, sets self.sess_params
load_logs(at, fs, pf) ==
    IF ~HasAttr(at, "paramfile") THEN [err |-> "AttributeError", attrs |-> at]
    ELSE IF pf \notin DOMAIN fs THEN [err |-> "FileNotFoundError", attrs |-> at]
    ELSE [err |-> "none", attrs |-> at \cup {"sess_params"}]

\* plot_logs: the scores file read (337), the attributes of 345-352 set,
\* the grid sized by self.agent_count (356), the scores plotted, then the
\* loss panels.  sf is the value of self.scoresfile, n of self.agent_count.
plot_logs(at, fs, lf, sf, n) ==
    IF ~HasAttr(at, "scoresfile")
    THEN [err |-> "AttributeError", attrs |-> at, panels |-> <<>>]
    ELSE IF PlotData(fs, sf) # "none"
    THEN [err |-> PlotData(fs, sf), attrs |-> at, panels |-> <<>>]
    ELSE IF ~HasAttr(at, "agent_count")
    THEN [err |-> "AttributeError", attrs |-> at \cup PlotAttrs, panels |-> <<>>]
    ELSE IF ~({"framework", "sess_params"} \subseteq at)
    THEN [err |-> "AttributeError", attrs |-> at \cup PlotAttrs, panels |-> <<>>]
    ELSE LET r == plot_losses(fs, lf, PanelCells(n), <<>>)
         IN  [err |-> r.err, attrs |-> at \cup PlotAttrs, panels |-> r.panels]

\* graph(): load_logs, then plot_logs unless load_logs raised
load_and_plot(at, fs, lf, pf, sf, n) ==
    LET ld == load_logs(at, fs, pf)
    IN  IF ld.err # "none"
        THEN [err |-> ld.err, attrs |-> ld.attrs, panels |-> <<>>]
        ELSE plot_logs(ld.attrs, fs, lf, sf, n)

\* logger.graph() of a training Logger (main.py line 109): logdir is None.
\* It is called when the run's logging is over (logPc = "graphed" from then).
Graph ==
    /\ logPc \in {"ready", "graphed"}
    /\ stepCalls >= 1
    /\ graphCalls < MaxGraphCalls
    /\ LET r == load_and_plot(attrs, logFS, lossfiles, ParamName, ScoresName,
                              logArgs.agent_count)
       IN  /\ plotErr' = r.err
           /\ attrs' = r.attrs
           /\ panels' = r.panels
    /\ graphCalls' = graphCalls + 1
    /\ firstLossfiles' = IF graphCalls = 0 THEN lossfiles ELSE firstLossfiles
    /\ logPc' = "graphed"
    /\ UNCHANGED <<logArgs, rewards, scores, lossfiles, logFS, t_step,
                   logCalls, stepCalls, episodeScores, loggedSince, logdir>>
    /\ UNCHANGED <<saverVars, ckptVars, fnVars>>

\* Logger.__init__ without multi_agent and args (lines 212-216)
LoggerInitBlank ==
    /\ logPc = "none"
    /\ attrs' = BlankAttrs
    /\ lossfiles' = <<>>
    /\ logPc' = "blank"
    /\ UNCHANGED <<logArgs, rewards, scores, logFS, t_step, logCalls,
                   stepCalls, episodeScores, loggedSince>>
    /\ UNCHANGED <<saverVars, ckptVars, plotVars, fnVars>>

\* os.path.join(self.log_dir, file)
JoinPath(dir, name) == dir \o <<"/">> \o name

LogSuffix == <<"_", "L", "O", "G", ".", "t", "x", "t">>
ScoresSuffix == <<"_", "s", "c", "o", "r", "e", "s", ".", "t", "x", "t">>
LossSuffix == <<"l", "o", "s", "s", ".", "t", "x", "t">>

\* the files of the listing that graph() takes for loss files (482-483)
LossPaths(fs) ==
    {f \in DOMAIN fs : /\ ~EndsWith(f, LogSuffix)
                       /\ ~EndsWith(f, ScoresSuffix)
                       /\ EndsWith(f, LossSuffix)}

\* the orders in which os.listdir may list a set of files
RECURSIVE ListOrders(_)
ListOrders(S) ==
    IF S = {} THEN {<<>>}
    ELSE UNION {{<<x>> \o q : q \in ListOrders(S \ {x})} : x \in S}

\* idx = int(re.search(r'agent(\d*)', file).group(1)) - 1: the leftmost
\* "agent" of the path, the digits after it (none: int('') is a ValueError)
agent_index(file) ==
    LET word == <<"a", "g", "e", "n", "t">>
        hits == {i \in 1..Len(file) : i + 4 <= Len(file)
                                       /\ SubSeq(file, i, i + 4) = word}
    IN  IF hits = {} THEN [err |-> "AttributeError", idx |-> 0]
        ELSE LET digits == DigitRun(file, SetMin(hits) + 5)
             IN  IF Len(digits) = 0 THEN [err |-> "ValueError", idx |-> 0]
                 ELSE [err |-> "none", idx |-> IntOfDigits(digits) - 1]

\* lines 484-489: try: self.lossfiles[idx].append(file)
\*                except: self.lossfiles[idx] = [file]
RECURSIVE add_lossfiles(_, _)
add_lossfiles(lf, list) ==
    IF Len(list) = 0 THEN [err |-> "none", lf |-> lf]
    ELSE LET a == agent_index(Head(list))
         IN  IF a.err # "none" THEN [err |-> a.err, lf |-> lf]
             ELSE add_lossfiles(
                      IF a.idx \in DOMAIN lf
                      THEN [lf EXCEPT ![a.idx] = Append(@, Head(list))]
                      ELSE lf @@ (a.idx :> <<Head(list)>>),
                      Tail(list))

\* the file of the listing with the given ending (any, when there are more)
FileEnding(fs, suffix) ==
    IF \E f \in DOMAIN fs : EndsWith(f, suffix)
    THEN CHOOSE f \in DOMAIN fs : EndsWith(f, suffix)
    ELSE <<>>

\* graph(logdir) with a log directory (lines 473-491); loss_list is the
\* listing's loss files in the order os.listdir gave them
graph_logdir(at, fs, lf, dir, loss_list) ==
    IF ~Contains(dir, <<"/">>)
    THEN [err |-> "IndexError", attrs |-> at \cup {"log_dir"}, lf |-> lf,
          panels |-> <<>>]
    ELSE LET pf == FileEnding(fs, LogSuffix)
             sf == FileEnding(fs, ScoresSuffix)
             a1 == at \cup {"log_dir", "filename", "framework"}
                      \cup (IF pf # <<>> THEN {"paramfile"} ELSE {})
                      \cup (IF sf # <<>> THEN {"scoresfile"} ELSE {})
             r  == add_lossfiles(lf, loss_list)
         IN  IF r.err # "none"
             THEN [err |-> r.err, attrs |-> a1, lf |-> r.lf, panels |-> <<>>]
             ELSE LET g == load_and_plot(a1, fs, r.lf, pf, sf, 0)
                  IN  [err |-> g.err, attrs |-> g.attrs, lf |-> r.lf,
                       panels |-> g.panels]

\* a graph(logdir) call on a blank Logger
GraphLogdir(loss_list) ==
    /\ logPc = "blank"
    /\ graphCalls < MaxGraphCalls
    /\ LET g == graph_logdir(attrs, logFS, lossfiles, logdir, loss_list)
       IN  /\ plotErr' = g.err
           /\ attrs' = g.attrs
           /\ lossfiles' = g.lf
           /\ panels' = g.panels
    /\ graphCalls' = graphCalls + 1
    /\ firstLossfiles' = IF graphCalls = 0 THEN lossfiles' ELSE firstLossfiles
    /\ UNCHANGED <<logPc, logArgs, rewards, scores, logFS, t_step, logCalls,
                   stepCalls, episodeScores, loggedSince, logdir>>
    /\ UNCHANGED <<saverVars, ckptVars, fnVars>>

(***************************************************************************)
(* Logger._moving_avg.  Numbers are exact: the curve is returned as        *)
(* numerators over one common denominator.                                 *)
(***************************************************************************)
\* np.pad(..., stat_length=10)
StatLength == 10

Min(a, b) == IF a < b THEN a ELSE b

\* Python: int(x) of a number x >= 0 given in hundredths
IntTrunc(x) == x \div 100

\* faulty variant of pad_mean: the sequence padded with zeros
pad_mean_Zeros(data, w) ==
    LET n == Len(data)
        L == Min(StatLength, n)
    IN  [i \in 1..(n + 2 * w) |->
            IF i <= w \/ i > w + n THEN 0 ELSE L * data[i - w]]

\* np.pad(data, w, mode="mean", stat_length=10), every value multiplied by
\* the number L of edge values averaged: w copies of the mean of the first
\* L values, the data, w copies of the mean of the last L values
pad_mean(data, w) ==
    LET n == Len(data)
        L == Min(StatLength, n)
        left  == SeqSum(SubSeq(data, 1, L))
        right == SeqSum(SubSeq(data, n - L + 1, n))
    IN  [i \in 1..(n + 2 * w) |->
            IF i <= w THEN left
            ELSE IF i > w + n THEN right
            ELSE L * data[i - w]]

\* np.convolve(a, np.ones(w), 'full')[j], j counted from 0
RECURSIVE ConvFull(_, _, _)
ConvFull(a, j, k) ==
    IF k = 0 THEN 0
    ELSE (IF j - (k - 1) >= 0 /\ j - (k - 1) < Len(a) THEN a[j - (k - 1) + 1] ELSE 0)
         + ConvFull(a, j, k - 1)

\* np.convolve(a, np.ones(w), 'same'): the middle Len(a) values of 'full'
conv_same(a, w) ==
    [i \in 1..Len(a) |-> ConvFull(a, (i - 1) + ((w - 1) \div 2), w)]

\* _moving_avg(data, avg_across): the value of place i is num[i] / den
moving_avg(data, avg_across) ==
    LET w == IntTrunc(avg_across)
        padded == pad_mean(data, w)
        same == conv_same(padded, w)
    IN  [den |-> Min(StatLength, Len(data)) * w,
         num |-> SubSeq(same, w + 1, Len(same) - w)]

\* values of a sequence (hundredths)
AvgValues == {0, 10, 25}

\* the sequences explored: every short one, and constant and rising ones
\* longer than stat_length
AvgInputs ==
    UNION {[1..n -> AvgValues] : n \in 1..MaxLen}
    \cup {[i \in 1..(StatLength + 2) |-> v] : v \in AvgValues}
    \cup {[i \in 1..(StatLength + 2) |-> i]}

\* window arguments (hundredths): 1, 1.5, 2, ... MaxWindow
WindowChoices == {50 * k : k \in 2..(2 * MaxWindow)}

MovingAvg ==
    /\ fnPc = "idle"
    /\ avgData # <<>>
    /\ curve' = moving_avg(avgData, avgAcross)
    /\ fnPc' = "done"
    /\ UNCHANGED <<avgData, avgAcross, cmdline, cudaAvailable, gathered>>
    /\ UNCHANGED <<saverVars, loggerVars, ckptVars, plotVars>>

(***************************************************************************)
(* gather_args: what follows parser.parse_args().                          *)
(***************************************************************************)
Hard == <<"h", "a", "r", "d">>
Soft == <<"s", "o", "f", "t">>

\* the device named by line 764
CudaDevice == <<"c", "u", "d", "a", ":", "0">>
CpuDevice == <<"c", "p", "u">>

\* faulty variant of limit_eval: the run limited whenever eval is set
limit_eval_Always(a) ==
    IF a.eval
    THEN [a EXCEPT !.num_episodes = 1] @@ ("max_steps" :> 1000)
    ELSE a

\* lines 766-768: if args.eval and not args.force_eval
limit_eval(a) ==
    IF a.eval /\ ~a.force_eval
    THEN [a EXCEPT !.num_episodes = 1] @@ ("max_steps" :> 1000)
    ELSE a

\* lines 756-775.  c is the namespace parse_args returned; err names the
\* assertion that failed
gather_args(c, cuda) ==
    LET a1 == [c EXCEPT !.update_type = Lower(c.update_type)]
    IN  IF a1.update_type \notin {Hard, Soft} \/ a1.pretrain < a1.batch_size
           \/ a1.rollout < 1
        THEN [err |-> "AssertionError", args |-> a1]
        ELSE LET a2 == a1 @@ ("device" :> IF cuda THEN CudaDevice ELSE CpuDevice)
                 a3 == limit_eval(a2)
                 a4 == IF a3.force_eval THEN [a3 EXCEPT !.eval = TRUE] ELSE a3
             IN  [err |-> "none", args |-> a4 @@ ("train" :> ~a4.eval)]

\* command lines explored
UpdateTypes == {Hard, <<"S", "O", "F", "T">>, <<"H", "a", "r", "d">>, <<"n", "o">>}
NumEpisodesChoices == {1, 2, 1000}
CmdLines ==
    [eval : BOOLEAN, force_eval : BOOLEAN, cpu : BOOLEAN,
     num_episodes : NumEpisodesChoices, update_type : UpdateTypes,
     pretrain : {100, 500}, batch_size : {128}, rollout : {0, 5}]

GatherArgs ==
    /\ fnPc = "idle"
    /\ cmdline # <<>>
    /\ gathered' = gather_args(cmdline, cudaAvailable)
    /\ fnPc' = "done"
    /\ UNCHANGED <<avgData, avgAcross, curve, cmdline, cudaAvailable>>
    /\ UNCHANGED <<saverVars, loggerVars, ckptVars, plotVars>>

(***************************************************************************)
(* Logger.log and Logger.step called bare, as eval() of main.py calls      *)
(* them: log(rewards) without a multi_agent, step() without an episode     *)
(* number.                                                                 *)
(***************************************************************************)
\* logger.log(rewards): multi_agent is None.  Past the eval return, line 254
\* reads multi_agent.t_step: AttributeError on None.
LogBare ==
    \E rw \in RewardVectors(logArgs.agent_count) :
        /\ logPc = "ready"
        /\ logCalls < MaxLogCalls
        /\ logCalls' = logCalls + 1
        /\ rewards' = [i \in DOMAIN rewards |-> rewards[i] + rw[i]]
        /\ loggedSince' = [i \in DOMAIN rw |-> loggedSince[i] + rw[i]]
        /\ IF logArgs.eval
           THEN UNCHANGED <<logPc, plotErr>>
           ELSE /\ plotErr' = "AttributeError"
                /\ logPc' = "error"
        /\ UNCHANGED <<logArgs, scores, lossfiles, logFS, t_step, stepCalls,
                       episodeScores, attrs>>
        /\ UNCHANGED <<panels, graphCalls, firstLossfiles, logdir>>
        /\ UNCHANGED <<saverVars, ckptVars, fnVars>>

\* faulty variant of step_files: the score written in eval mode too
step_files_NoEvalReturn(ev, fs, sc) == write_scores(fs, sc)

\* step, lines 266-270: the log files after the eval return or _write_scores
step_files(ev, fs, sc) == IF ev THEN fs ELSE write_scores(fs, sc)

\* logger.step(): eps_num and multi_agent are None.  Past the eval return
\* the score is written, then line 272 computes eps_num % self.print_every:
\* TypeError on None.
StepBare ==
    /\ logPc = "ready"
    /\ stepCalls < MaxEpisodes
    /\ stepCalls' = stepCalls + 1
    /\ episodeScores' = Append(episodeScores, MaxOf(loggedSince))
    /\ loggedSince' = [i \in DOMAIN loggedSince |-> 0]
    /\ scores' = update_score(scores, rewards, logArgs.print_every)
    /\ rewards' = reset_rewards(logArgs.agent_count)
    /\ logFS' = step_files(logArgs.eval, logFS, scores')
    /\ IF logArgs.eval
       THEN UNCHANGED <<logPc, plotErr>>
       ELSE /\ plotErr' = "TypeError"
            /\ logPc' = "error"
    /\ UNCHANGED <<logArgs, lossfiles, t_step, logCalls, attrs>>
    /\ UNCHANGED <<panels, graphCalls, firstLossfiles, logdir>>
    /\ UNCHANGED <<saverVars, ckptVars, fnVars>>

(***************************************************************************)
(* Checkpoints: Saver.save_checkpoint, Saver.save_final, Saver._save, as   *)
(* the training loop of main.py calls them at the end of each episode and  *)
(* at cleanup (main.py names the two calls saver.save(multi_agent) and     *)
(* saver.save(multi_agent, final=True)).                                   *)
(***************************************************************************)
SaveEveryChoices == {1, 2, 3}

\* faulty variant of CkptSaveName: the episode number left out of the name
CkptSaveName_NoEpisode(fname, eps) ==
    fname \o <<"_", "c", "k", "p", "t">>

\* save_name = "{}_eps{:04d}_ckpt".format(self.filename, agent.episode)
CkptSaveName(fname, eps) ==
    fname \o <<"_", "e", "p", "s">> \o Format04d(eps) \o <<"_", "c", "k", "p", "t">>

\* save_name = "{}_eps{:04d}_FINAL".format(self.filename, agent.episode-1)
FinalSaveName(fname, eps) ==
    fname \o <<"_", "e", "p", "s">> \o Format04d(eps - 1)
          \o <<"_", "F", "I", "N", "A", "L">>

\* faulty variant of AgentPath: the file written outside self.save_dir
AgentPath_NoDir(fname, save_name, idx) ==
    save_name \o <<"_", "a", "g", "e", "n", "t">> \o DigitsOf(idx + 1) \o AgentExt

\* basename + "_agent{}".format(idx+1) + self.file_ext, basename being
\* os.path.join(self.save_dir, save_name)
AgentPath(fname, save_name, idx) ==
    fname \o <<"/">> \o save_name \o <<"_", "a", "g", "e", "n", "t">>
          \o DigitsOf(idx + 1) \o AgentExt

\* torch.save(obj, path): the file is created or replaced
TorchSave(fs, path, obj) ==
    IF path \in DOMAIN fs THEN [fs EXCEPT ![path] = obj] ELSE fs @@ (path :> obj)

CountWrite(w, path) ==
    IF path \in DOMAIN w THEN [w EXCEPT ![path] = @ + 1] ELSE w @@ (path :> 1)

\* _save: one file per agent, for idx, agent in enumerate(multi_agent.agents)
RECURSIVE SaveAgents(_, _, _, _, _)
SaveAgents(fs, fname, save_name, n, w) ==
    IF n = 0 THEN fs
    ELSE TorchSave(SaveAgents(fs, fname, save_name, n - 1, w),
                   AgentPath(fname, save_name, n - 1),
                   [agent |-> n, weights |-> w])

RECURSIVE CountAgents(_, _, _, _)
CountAgents(wr, fname, save_name, n) ==
    IF n = 0 THEN wr
    ELSE CountWrite(CountAgents(wr, fname, save_name, n - 1),
                    AgentPath(fname, save_name, n - 1))

\* the body of the episode: the agents act and learn (main.py 69-94)
Interact ==
    /\ trainPc = "interact"
    /\ weights' = weights + 1
    /\ trainPc' = "save"
    /\ UNCHANGED <<trainArgs, loopEpisode, episode, ckptFiles, writes>>
    /\ UNCHANGED <<saverVars, loggerVars, plotVars, fnVars>>

\* save_checkpoint(agent, save_every), main.py line 97
SaveCheckpoint ==
    /\ trainPc = "save"
    /\ IF episode % trainArgs.save_every = 0
       THEN LET save_name == CkptSaveName(filename, episode)
            IN  /\ ckptFiles' = SaveAgents(ckptFiles, filename, save_name,
                                           trainArgs.agent_count, weights)
                /\ writes' = CountAgents(writes, filename, save_name,
                                         trainArgs.agent_count)
                /\ saveDirEntries' = check_dir(saveDirEntries, filename)
       ELSE UNCHANGED <<ckptFiles, writes, saveDirEntries>>
    /\ trainPc' = "new_episode"
    /\ UNCHANGED <<trainArgs, loopEpisode, episode, weights>>
    /\ UNCHANGED <<treeFiles, today, args, pc, prefix, files, load_file,
                   filename, ver, loaded, before, prompts, inputs, scanned,
                   dirChecked, runCount, history, initialEntries>>
    /\ UNCHANGED <<loggerVars, plotVars, fnVars>>

\* multi_agent.new_episode(), main.py line 98: the agent's episode counter
\* advances
NewEpisode ==
    /\ trainPc = "new_episode"
    /\ episode' = episode + 1
    /\ trainPc' = "episode_end"
    /\ UNCHANGED <<trainArgs, loopEpisode, weights, ckptFiles, writes>>
    /\ UNCHANGED <<saverVars, loggerVars, plotVars, fnVars>>

\* main.py lines 99-102 and the for of line 63: the loop goes on to the next
\* episode, or ends (num_episodes reached, or the score threshold's break)
NextEpisode ==
    /\ trainPc = "episode_end"
    /\ loopEpisode < trainArgs.num_episodes
    /\ loopEpisode' = loopEpisode + 1
    /\ trainPc' = "interact"
    /\ UNCHANGED <<trainArgs, episode, weights, ckptFiles, writes>>
    /\ UNCHANGED <<saverVars, loggerVars, plotVars, fnVars>>

LoopEnds ==
    /\ trainPc = "episode_end"
    /\ trainPc' = "cleanup"
    /\ UNCHANGED <<trainArgs, loopEpisode, episode, weights, ckptFiles, writes>>
    /\ UNCHANGED <<saverVars, loggerVars, plotVars, fnVars>>

\* save_final(agent), main.py line 108
SaveFinal ==
    /\ trainPc = "cleanup"
    /\ LET save_name == FinalSaveName(filename, episode)
       IN  /\ ckptFiles' = SaveAgents(ckptFiles, filename, save_name,
                                      trainArgs.agent_count, weights)
           /\ writes' = CountAgents(writes, filename, save_name,
                                    trainArgs.agent_count)
           /\ saveDirEntries' = check_dir(saveDirEntries, filename)
    /\ trainPc' = "done"
    /\ UNCHANGED <<trainArgs, loopEpisode, episode, weights>>
    /\ UNCHANGED <<treeFiles, today, args, pc, prefix, files, load_file,
                   filename, ver, loaded, before, prompts, inputs, scanned,
                   dirChecked, runCount, history, initialEntries>>
    /\ UNCHANGED <<loggerVars, plotVars, fnVars>>

TrainBlank ==
    /\ trainPc = "none"
    /\ trainArgs = [save_every |-> 1, num_episodes |-> 1, agent_count |-> 1]
    /\ loopEpisode = 0
    /\ episode = 0
    /\ weights = 0
    /\ ckptFiles = <<>>
    /\ writes = <<>>

(***************************************************************************)
(* train() of main.py as written: the interaction loop of an episode and  *)
(* the call that follows it.                                               *)
(***************************************************************************)
\* rewards of one timestep for one agent in a training run (hundredths)
TrainRewardPool == {0, 60}

\* Python: np.any(a)
NpAny(a) == \E i \in DOMAIN a : a[i] # 0

\* Python: a bool used as a number
BoolAsInt(b) == IF b THEN 1 ELSE 0

\* main.py line 93: np.any(logger.rewards) > 1
reward_cutoff(r) == BoolAsInt(NpAny(r)) > 1

\* main.py lines 69-94: one pass of the while loop.  The environment gives
\* the rewards rw and the done flags (done = np.any(dones)); logger.log
\* accumulates the rewards; the loop breaks on done, or on the reward test.
TrainTimestep(rw, t, done) ==
    /\ trainPc = "interact"
    /\ log(rw, t)
    /\ weights' = weights + 1
    /\ trainPc' = IF done THEN "save"
                  ELSE IF reward_cutoff(rewards') THEN "save"
                  ELSE "interact"
    /\ UNCHANGED <<trainArgs, loopEpisode, episode, ckptFiles, writes>>
    /\ UNCHANGED <<saverVars, plotVars, fnVars>>

\* the attributes a Saver object has: those of the class and those set by
\* __init__
SaverAttributes ==
    {"__init__", "_get_agent_file", "_get_files", "_get_filepath",
     "generate_savename", "save_checkpoint", "save_final", "_save",
     "_get_save_dict", "_load_agent", "file_ext", "save_dir", "filename"}

\* main.py line 97: saver.save(multi_agent)
SaverSave ==
    /\ trainPc = "save"
    /\ trainPc' = IF HasAttr(SaverAttributes, "save") THEN "new_episode"
                  ELSE "AttributeError"
    /\ UNCHANGED <<trainArgs, loopEpisode, episode, weights, ckptFiles, writes>>
    /\ UNCHANGED <<saverVars, loggerVars, plotVars, fnVars>>


(***************************************************************************)
(* Specifications.                                                         *)
(***************************************************************************)
vars == <<saverVars, loggerVars, ckptVars, plotVars, fnVars>>

\* SpecName: fresh (non-resume) runs over a save directory of any content
InitName ==
    /\ saveDirEntries \in SUBSET EntryPool
    /\ initialEntries = saveDirEntries
    /\ treeFiles = {}
    /\ today = Date1
    /\ args = [resume |-> FALSE, eval |-> FALSE, agent_count |-> MaxAgents]
    /\ loaded = [i \in 1..MaxAgents |-> NoFile]
    /\ SaverBlank
    /\ LoggerBlank
    /\ PlotBlank
    /\ FnBlank
    /\ TrainBlank

NextName ==
    \/ \E p \in Prefixes : SaverInit(p)
    \/ GenerateSavename
    \/ CreateRunDir
    \/ ProcessExit
    \/ NextDay

SpecName == InitName /\ [][NextName]_vars

\* SpecLoad: one Saver construction, with or without resume / eval, over a
\* save directory tree of any content
InitLoad ==
    /\ saveDirEntries \in {{}, {BaseName(PlainPrefix, Date1) \o <<"0", "0", "5">>}}
    /\ initialEntries = saveDirEntries
    /\ treeFiles \in SUBSET FilePool
    /\ today = Date1
    /\ \E r \in BOOLEAN, e \in BOOLEAN, n \in 1..MaxAgents :
         /\ args = [resume |-> r, eval |-> e, agent_count |-> n]
         /\ loaded = [i \in 1..n |-> NoFile]
    /\ SaverBlank
    /\ LoggerBlank
    /\ PlotBlank
    /\ FnBlank
    /\ TrainBlank

NextLoad ==
    \/ SaverInit(PlainPrefix)
    \/ \E text \in InputPool : GetFilepath(text)
    \/ GenerateSavename
    \/ LoadAgent

SpecLoad == InitLoad /\ [][NextLoad]_vars


\* SpecLog: one Logger, training or eval, from construction on, in a run
\* directory that is new
InitLog ==
    /\ saveDirEntries = {}
    /\ initialEntries = {}
    /\ treeFiles = {}
    /\ today = Date1
    /\ args = [resume |-> FALSE, eval |-> FALSE, agent_count |-> MaxAgents]
    /\ loaded = [i \in 1..MaxAgents |-> NoFile]
    /\ SaverBlank
    /\ LoggerBlank
    /\ PlotBlank
    /\ FnBlank
    /\ TrainBlank

LogTimestep ==
    \E rw \in RewardVectors(logArgs.agent_count), t \in TStepChoices : Log(rw, t)

NextLog ==
    \/ \E ev \in BOOLEAN, pe \in PrintEveryChoices, le \in LogEveryChoices,
          n \in LogAgentCounts : LoggerInit(ev, pe, le, n)
    \/ LogTimestep
    \/ Step

SpecLog == InitLog /\ [][NextLog]_vars

\* SpecSave: the saves of one training run, the Saver constructed for a
\* new run of PlainPrefix
InitSave ==
    /\ saveDirEntries = {}
    /\ initialEntries = {}
    /\ treeFiles = {}
    /\ today = Date1
    /\ pc = "constructed"
    /\ prefix = PlainPrefix
    /\ files = <<>>
    /\ load_file = <<>>
    /\ filename = generate_savename(PlainPrefix, {}, Date1).filename
    /\ ver = 1
    /\ before = {}
    /\ prompts = <<>>
    /\ inputs = <<>>
    /\ scanned = FALSE
    /\ dirChecked = TRUE
    /\ runCount = 1
    /\ history = <<>>
    /\ LoggerBlank
    /\ PlotBlank
    /\ FnBlank
    /\ \E se \in SaveEveryChoices, ne \in 1..MaxTrainEpisodes, n \in 1..MaxAgents :
         /\ trainArgs = [save_every |-> se, num_episodes |-> ne, agent_count |-> n]
         /\ args = [resume |-> FALSE, eval |-> FALSE, agent_count |-> n]
         /\ loaded = [i \in 1..n |-> NoFile]
    /\ trainPc = "interact"
    /\ loopEpisode = 1
    /\ episode \in {0, 1}
    /\ weights = 0
    /\ ckptFiles = <<>>
    /\ writes = <<>>

NextSave ==
    \/ Interact
    \/ SaveCheckpoint
    \/ NewEpisode
    \/ NextEpisode
    \/ LoopEnds
    \/ SaveFinal

SpecSave == InitSave /\ [][NextSave]_vars

\* SpecTrain: train() of main.py from the head of its episode loop (line 63),
\* the Saver constructed for a new run of PlainPrefix and the training
\* Logger constructed in its run directory
InitTrain ==
    /\ initialEntries = {}
    /\ treeFiles = {}
    /\ today = Date1
    /\ pc = "constructed"
    /\ prefix = PlainPrefix
    /\ files = <<>>
    /\ load_file = <<>>
    /\ filename = generate_savename(PlainPrefix, {}, Date1).filename
    /\ saveDirEntries = check_dir({}, filename)
    /\ ver = 1
    /\ before = {}
    /\ prompts = <<>>
    /\ inputs = <<>>
    /\ scanned = FALSE
    /\ dirChecked = TRUE
    /\ runCount = 1
    /\ history = <<>>
    /\ \E se \in SaveEveryChoices, ne \in 1..MaxTrainEpisodes, n \in LogAgentCounts,
          pe \in PrintEveryChoices, le \in LogEveryChoices :
         /\ trainArgs = [save_every |-> se, num_episodes |-> ne, agent_count |-> n]
         /\ args = [resume |-> FALSE, eval |-> FALSE, agent_count |-> n]
         /\ loaded = [i \in 1..n |-> NoFile]
         /\ logArgs = [eval |-> FALSE, print_every |-> pe, log_every |-> le,
                       agent_count |-> n]
         /\ rewards = reset_rewards(n)
         /\ loggedSince = [i \in 1..n |-> 0]
         /\ lossfiles = [i \in 0..(n - 1) |-> get_agentlog_names(i)]
         /\ logFS = init_logs(<<>>, ParamText, n)
    /\ logPc = "ready"
    /\ scores = <<>>
    /\ t_step = 0
    /\ logCalls = 0
    /\ stepCalls = 0
    /\ episodeScores = <<>>
    /\ attrs = TrainAttrs
    /\ PlotBlank
    /\ FnBlank
    /\ trainPc = "interact"
    /\ loopEpisode = 1
    /\ episode \in {0, 1}
    /\ weights = 0
    /\ ckptFiles = <<>>
    /\ writes = <<>>

\* the reward vectors of one timestep of training
TrainRewardVectors(n) == [1..n -> TrainRewardPool]

EnvStep ==
    \E rw \in TrainRewardVectors(logArgs.agent_count), t \in TStepChoices,
       done \in BOOLEAN : TrainTimestep(rw, t, done)

NextTrain ==
    \/ EnvStep
    \/ SaverSave

SpecTrain == InitTrain /\ [][NextTrain]_vars

\* SpecPlot: a training Logger from its construction on: timesteps logged,
\* episodes stepped, and the graph drawn from its log files
PlotAgentCounts == {1, 2, 3}

InitPlot ==
    /\ saveDirEntries = {}
    /\ initialEntries = {}
    /\ treeFiles = {}
    /\ today = Date1
    /\ args = [resume |-> FALSE, eval |-> FALSE, agent_count |-> MaxAgents]
    /\ loaded = [i \in 1..MaxAgents |-> NoFile]
    /\ SaverBlank
    /\ TrainBlank
    /\ PlotBlank
    /\ FnBlank
    /\ \E n \in PlotAgentCounts, pe \in PrintEveryChoices, le \in LogEveryChoices :
         /\ logArgs = [eval |-> FALSE, print_every |-> pe, log_every |-> le,
                       agent_count |-> n]
         /\ rewards = reset_rewards(n)
         /\ loggedSince = [i \in 1..n |-> 0]
         /\ lossfiles = [i \in 0..(n - 1) |-> get_agentlog_names(i)]
         /\ logFS = init_logs(<<>>, ParamText, n)
    /\ logPc = "ready"
    /\ scores = <<>>
    /\ t_step = 0
    /\ logCalls = 0
    /\ stepCalls = 0
    /\ episodeScores = <<>>
    /\ attrs = TrainAttrs

\* a timestep in which no agent is rewarded
LogNoReward ==
    \E t \in TStepChoices : Log(reset_rewards(logArgs.agent_count), t)

NextPlot ==
    \/ LogNoReward
    \/ Step
    \/ Graph

SpecPlot == InitPlot /\ [][NextPlot]_vars

\* SpecGraph: a blank Logger pointed at the log directory a training run
\* of one or more agents left behind
PlainLogDir == <<"r", "/", "l">>
LogDirPool == {PlainLogDir, <<"a", "g", "e", "n", "t", "s", "/", "l">>, <<"l">>}

\* the files of a finished run's log directory, one line in each
RunLogFiles(dir, n) ==
    LET names == {ParamName, ScoresName}
                 \cup {get_agentlog_names(i)[k] : i \in 0..(n - 1), k \in 1..2}
    IN  [f \in {JoinPath(dir, name) : name \in names} |->
            IF EndsWith(f, LogSuffix) THEN ParamText
            ELSE StrFloat(10) \o <<"\n">>]

InitGraph ==
    /\ saveDirEntries = {}
    /\ initialEntries = {}
    /\ treeFiles = {}
    /\ today = Date1
    /\ args = [resume |-> FALSE, eval |-> FALSE, agent_count |-> MaxAgents]
    /\ loaded = [i \in 1..MaxAgents |-> NoFile]
    /\ SaverBlank
    /\ TrainBlank
    /\ logPc = "none"
    /\ logArgs = [eval |-> FALSE, print_every |-> 1, log_every |-> 1,
                  agent_count |-> 1]
    /\ rewards = <<>>
    /\ scores = <<>>
    /\ lossfiles = <<>>
    /\ t_step = 0
    /\ logCalls = 0
    /\ stepCalls = 0
    /\ episodeScores = <<>>
    /\ attrs = {}
    /\ loggedSince = <<>>
    /\ panels = <<>>
    /\ plotErr = "none"
    /\ graphCalls = 0
    /\ firstLossfiles = <<>>
    /\ FnBlank
    /\ logdir \in LogDirPool
    /\ \E n \in PlotAgentCounts : logFS = RunLogFiles(logdir, n)

GraphAgain ==
    \E loss_list \in ListOrders(LossPaths(logFS)) : GraphLogdir(loss_list)

NextGraph ==
    \/ LoggerInitBlank
    \/ GraphAgain

SpecGraph == InitGraph /\ [][NextGraph]_vars

\* the parts of the program SpecAvg and SpecArgs leave at rest
ProgramBlank ==
    /\ saveDirEntries = {}
    /\ initialEntries = {}
    /\ treeFiles = {}
    /\ today = Date1
    /\ args = [resume |-> FALSE, eval |-> FALSE, agent_count |-> MaxAgents]
    /\ loaded = [i \in 1..MaxAgents |-> NoFile]
    /\ SaverBlank
    /\ LoggerBlank
    /\ TrainBlank
    /\ PlotBlank

\* SpecAvg: _moving_avg applied to a sequence and a window
InitAvg ==
    /\ ProgramBlank
    /\ fnPc = "idle"
    /\ avgData \in AvgInputs
    /\ avgAcross \in WindowChoices
    /\ curve = <<>>
    /\ cmdline = <<>>
    /\ cudaAvailable = FALSE
    /\ gathered = <<>>

SpecAvg == InitAvg /\ [][MovingAvg]_vars

\* SpecArgs: gather_args applied to a command line, on a machine with or
\* without a GPU
InitArgs ==
    /\ ProgramBlank
    /\ fnPc = "idle"
    /\ avgData = <<>>
    /\ avgAcross = 100
    /\ curve = <<>>
    /\ cmdline \in CmdLines
    /\ cudaAvailable \in BOOLEAN
    /\ gathered = <<>>

SpecArgs == InitArgs /\ [][GatherArgs]_vars

\* SpecEval: one Logger, built for eval or for training, then called the
\* way eval() of main.py calls it
NextEval ==
    \/ \E ev \in BOOLEAN, pe \in PrintEveryChoices, le \in LogEveryChoices,
          n \in LogAgentCounts : LoggerInit(ev, pe, le, n)
    \/ LogBare
    \/ StepBare

SpecEval == InitLog /\ [][NextEval]_vars

(***************************************************************************)
(* Claims about Saver.generate_savename (checked under SpecName).          *)
(***************************************************************************)
\* the version an entry carries after the stem <prefix>_<date>_v, as text
StemVersionText(f, stem) == DigitRun(f, Len(stem) + 1)

\* C1: the version number chosen by generate_savename is strictly greater
\* than the version number of every existing entry whose name starts with
\* the stem <prefix>_<date>_v of the call.
C1_VersionAboveExisting ==
    pc = "constructed" =>
        \A f \in before :
            LET stem == BaseName(prefix, today)
            IN  (StartsWith(f, stem) /\ StemVersionText(f, stem) # <<>>)
                    => ver > IntOfDigits(StemVersionText(f, stem))

\* C2: the name returned by generate_savename differs from the name of
\* every entry the save directory holds at the moment of the call.
C2_NameIsNew ==
    pc = "constructed" => filename \notin before

\* C3: starting from an empty save directory, the first invocation for a
\* prefix P on a date D (whose run creates its directory) yields P_D_v001
\* and the second invocation for P on D yields P_D_v002.
C3_FirstTwoNames ==
    (/\ initialEntries = {}
     /\ Len(history) >= 2
     /\ history[1].created
     /\ history[2].prefix = history[1].prefix
     /\ history[2].date = history[1].date)
    => LET stem == BaseName(history[1].prefix, history[1].date)
       IN  /\ history[1].filename = stem \o <<"0", "0", "1">>
           /\ history[2].filename = stem \o <<"0", "0", "2">>

(***************************************************************************)
(* Claims about the resume / evaluate prompt (checked under SpecLoad).     *)
(***************************************************************************)
\* the texts of InputPool that are q or quit in some letter case
QuitTexts ==
    { <<"q">>, <<"Q">>, <<"q", "u", "i", "t">>, <<"Q", "u", "I", "t">> }

LastInput == inputs[Len(inputs)]

\* a selection that is neither a quit nor the number of a listed file
InvalidSelection(text, n) ==
    /\ text \notin QuitTexts
    /\ ~(IntParse(text).ok /\ IntParse(text).val \in 1..n)

\* C7: after an invalid selection the same agent's prompt is shown again
\* (the construction is back at the prompt of the agent just asked).
C7_InvalidReprompts ==
    (Len(inputs) > 0 /\ InvalidSelection(LastInput, Len(files)))
        => (pc = "prompt" /\ Len(load_file) + 1 = prompts[Len(prompts)])

\* C8: q or quit, in any letter case, at any agent's prompt raises
\* KeyboardInterrupt out of the construction; then no later agent was
\* prompted, no save name was generated, no directory was checked or
\* created and no agent loaded weights.
C8_QuitAbortsStartup ==
    /\ (Len(inputs) > 0 /\ LastInput \in QuitTexts) => pc = "KeyboardInterrupt"
    /\ pc = "KeyboardInterrupt" =>
          /\ LastInput \in QuitTexts
          /\ Len(prompts) = Len(inputs)
          /\ prompts[Len(prompts)] = Len(load_file) + 1
          /\ filename = <<>>
          /\ ~dirChecked
          /\ saveDirEntries = initialEntries
          /\ \A i \in DOMAIN loaded : loaded[i] = NoFile

C8_Witness ==
    /\ pc = "KeyboardInterrupt"
    /\ Len(prompts) = 2
    /\ LastInput = <<"Q", "u", "I", "t">>

NoAgentFileInTree == \A f \in treeFiles : ~EndsWith(f.path, AgentExt)

\* C9: with resume or eval set and no file ending in .agent in the tree,
\* the construction fails with AssertionError before any prompt and any
\* load; with neither set there is no file scan, no prompt and no load.
C9_MissingFilesAssert ==
    /\ ((args.resume \/ args.eval) /\ NoAgentFileInTree /\ pc # "none")
          => /\ pc = "AssertionError"
             /\ prompts = <<>>
             /\ filename = <<>>
             /\ \A i \in DOMAIN loaded : loaded[i] = NoFile
    /\ (~args.resume /\ ~args.eval)
          => /\ ~scanned
             /\ prompts = <<>>
             /\ pc \notin {"prompt", "load_agent", "AssertionError"}
             /\ \A i \in DOMAIN loaded : loaded[i] = NoFile

C9_Witness ==
    /\ pc = "AssertionError"
    /\ treeFiles # {}
    /\ args.eval /\ ~args.resume

\* f is the k-th most recently modified file ending in .agent
KthLatest(f, k) ==
    /\ f \in treeFiles /\ EndsWith(f.path, AgentExt)
    /\ Cardinality({g \in treeFiles :
                      EndsWith(g.path, AgentExt) /\ g.mtime > f.mtime}) < k
    /\ Cardinality({g \in treeFiles :
                      EndsWith(g.path, AgentExt) /\ g.mtime >= f.mtime}) >= k

NumAgentFiles == Cardinality({g \in treeFiles : EndsWith(g.path, AgentExt)})

\* C10: on resume / evaluate the prompts come one per agent in agent order;
\* a numeric selection k is accepted exactly when 1 <= k <= n and then
\* yields the k-th most recently modified file (different k, different
\* files); the list has agent_count entries and agent i loads entry i.
C10_SelectionPerAgent ==
    /\ \A i \in 1..Len(prompts) : prompts[i] = i
    /\ Len(prompts) <= args.agent_count
    /\ \A i \in 1..Len(inputs) :
          IntParse(inputs[i]).ok =>
             LET k == IntParse(inputs[i]).val
             IN  /\ (i <= Len(load_file)) <=> (1 <= k /\ k <= NumAgentFiles)
                 /\ i <= Len(load_file) => KthLatest(load_file[i], k)
    /\ \A i, j \in 1..Len(load_file) :
          (IntParse(inputs[i]).ok /\ IntParse(inputs[j]).ok
             /\ IntParse(inputs[i]).val # IntParse(inputs[j]).val)
          => load_file[i] # load_file[j]
    /\ (pc \in {"generate_savename", "load_agent", "constructed"}
          /\ (args.resume \/ args.eval))
          => /\ Len(load_file) = args.agent_count
             /\ Len(prompts) = args.agent_count
    /\ (pc = "constructed" /\ (args.resume \/ args.eval))
          => \A i \in 1..args.agent_count : loaded[i] = load_file[i]

C10_Witness ==
    /\ pc = "constructed"
    /\ args.agent_count = 2
    /\ NumAgentFiles = 3
    /\ inputs = << <<"1">>, <<"3">> >>
    /\ loaded[1].mtime = 2
    /\ loaded[2].mtime = 1


(***************************************************************************)
(* Claims about the Logger's files (checked under SpecLog).                *)
(***************************************************************************)
\* C4: in training mode, after N calls of Logger.step the scores file read
\* back by plot_logs holds exactly N values, the N episode scores in the
\* order the episodes finished.
C4_ScoresRoundTrip ==
    (logPc = "ready" /\ ~logArgs.eval) =>
        LET read == ReadScores(logFS)
        IN  /\ Len(read) = stepCalls
            /\ \A i \in 1..Len(read) :
                  read[i].ok /\ read[i].val = episodeScores[i]

C4_Witness ==
    /\ logPc = "ready" /\ ~logArgs.eval
    /\ stepCalls = 3
    /\ logArgs.print_every = 2
    /\ episodeScores = <<10, 0 - 1, 0>>

IsPrefixOf(a, b) == Len(a) <= Len(b) /\ SubSeq(b, 1, Len(a)) = a

\* C5: once the Logger is initialised, every Logger operation only appends
\* to the files of the log directory: each file is still there afterwards
\* and its earlier text is the beginning of its new text.
C5_LogsAppendOnly ==
    [][logPc = "ready" =>
          \A name \in DOMAIN logFS :
              /\ name \in DOMAIN logFS'
              /\ IsPrefixOf(logFS[name], logFS'[name])]_vars

C5_Witness ==
    /\ logPc = "ready"
    /\ ScoresName \in DOMAIN logFS
    /\ Len(SplitLines(logFS[ScoresName])) >= 2
    /\ \E name \in DOMAIN logFS :
          /\ Contains(name, <<"l", "o", "s", "s">>)
          /\ Len(SplitLines(logFS[name])) >= 2

ScoreWindow == 250

\* more than ScoreWindow episode scores recorded, the mean of the most
\* recent ScoreWindow of them above 0.5
ThresholdMet ==
    /\ Len(episodeScores) > ScoreWindow
    /\ SeqSum(SubSeq(episodeScores, Len(episodeScores) - ScoreWindow + 1,
                     Len(episodeScores))) > 50 * ScoreWindow

\* positions of train() inside its episode loop
InLoop == {"interact", "save", "new_episode", "episode_end"}

\* C11: the training loop runs episodes until num_episodes episodes are
\* done or the score threshold is met, and then proceeds to cleanup: when
\* train() is no longer inside its loop it is in cleanup or past it, and
\* num_episodes episodes were finished or the threshold was met.
C11_LoopRunsToEnd ==
    trainPc \notin InLoop =>
        /\ trainPc \in {"cleanup", "done"}
        /\ stepCalls = trainArgs.num_episodes \/ ThresholdMet

\* C12: at the end of every episode a checkpoint file per agent, named
\* <run name>_eps<NNNN>_ckpt_agent<i>.agent, has been written exactly when
\* the episode number is a multiple of save_every.
C12_CheckpointAtMultiples ==
    trainPc \notin {"interact", "save"} =>
        \A i \in 0..(trainArgs.agent_count - 1) :
            (AgentPath(filename, CkptSaveName(filename, episode), i)
                 \in DOMAIN ckptFiles)
            <=> (episode % trainArgs.save_every = 0)

\* C18: the interaction loop of an episode is cut off as soon as an agent's
\* accumulated episode reward exceeds 1 (100 hundredths): the loop is never
\* about to take another timestep with such a reward accumulated.
C18_RewardCutsEpisode ==
    trainPc = "interact" => \A i \in DOMAIN rewards : rewards[i] <= 100

(***************************************************************************)
(* Claims about Logger.plot_logs (checked under SpecPlot).                 *)
(***************************************************************************)
\* every loss file of every agent holds at least one line
LossFilesFilled ==
    \A idx \in DOMAIN lossfiles : \A k \in 1..Len(lossfiles[idx]) :
        /\ lossfiles[idx][k] \in DOMAIN logFS
        /\ Len(logFS[lossfiles[idx][k]]) > 0

\* C13: for every agent count, plot_logs raises no error and renders
\* exactly one loss panel for every pair of an agent and a metric (actor
\* loss, critic loss), read from that agent's own loss file.
C13_PanelPerAgentMetric ==
    (logPc = "graphed" /\ LossFilesFilled) =>
        /\ plotErr = "none"
        /\ Len(panels) = 2 * logArgs.agent_count
        /\ \A idx \in 0..(logArgs.agent_count - 1) : \A k \in 1..2 :
               Cardinality({j \in 1..Len(panels) :
                   panels[j] = [agent |-> idx,
                                file |-> get_agentlog_names(idx)[k]]}) = 1

(***************************************************************************)
(* Claims about a blank Logger (checked under SpecGraph).                  *)
(***************************************************************************)
\* C14: a blank Logger given a log directory through graph(logdir) locates
\* the files, loads them and constructs the graph without error, and a
\* second graph(logdir) call leaves the per-agent loss file lists as the
\* first call made them.
C14_BlankLoggerGraphs ==
    (logPc = "blank" /\ logdir = PlainLogDir /\ graphCalls >= 1) =>
        /\ plotErr = "none"
        /\ lossfiles = firstLossfiles

(***************************************************************************)
(* Claims about Logger._moving_avg (checked under SpecAvg).                *)
(***************************************************************************)
IsConstant(q) == \A i \in 1..Len(q) : q[i] = q[1]

\* C15: _moving_avg of a constant-valued sequence, for any window of 1 or
\* more (windows longer than the sequence included), is a sequence of the
\* same length whose every element is that constant.
C15_ConstantStaysConstant ==
    (fnPc = "done" /\ curve # <<>> /\ IsConstant(avgData)) =>
        /\ Len(curve.num) = Len(avgData)
        /\ \A i \in 1..Len(curve.num) : curve.num[i] = avgData[1] * curve.den

\* a window of 4 over a constant sequence of 2 values
C15_Witness ==
    /\ fnPc = "done"
    /\ curve # <<>>
    /\ avgData = <<25, 25>>
    /\ avgAcross = 400
    /\ curve.num = <<200, 200>>
    /\ curve.den = 8

(***************************************************************************)
(* Claims about gather_args (checked under SpecArgs).                      *)
(***************************************************************************)
Gathered == fnPc = "done" /\ gathered # <<>> /\ gathered.err = "none"

\* C16: after gather_args, whatever --eval and --force_eval were: train is
\* the negation of eval; force_eval implies eval; eval without force_eval
\* sets num_episodes to 1 and max_steps to 1000; with force_eval the
\* num_episodes of the command line is kept.
C16_EvalFlags ==
    Gathered =>
        LET a == gathered.args
        IN  /\ a.train = ~a.eval
            /\ cmdline.force_eval => a.eval
            /\ (cmdline.eval /\ ~cmdline.force_eval) =>
                   /\ a.num_episodes = 1
                   /\ "max_steps" \in DOMAIN a
                   /\ a.max_steps = 1000
            /\ cmdline.force_eval => a.num_episodes = cmdline.num_episodes

\* --eval and --force_eval both given with --num_episodes 2
C16_Witness ==
    /\ Gathered
    /\ cmdline.eval
    /\ cmdline.force_eval
    /\ cmdline.num_episodes = 2
    /\ gathered.args.num_episodes = 2
    /\ gathered.args.eval
    /\ ~gathered.args.train

\* C17: with --cpu given gather_args selects the CPU whether or not a GPU
\* is available; without it the GPU is selected when there is one.
C17_CpuFlagSelectsCpu ==
    Gathered =>
        /\ cmdline.cpu => gathered.args.device = CpuDevice
        /\ (~cmdline.cpu /\ cudaAvailable) => gathered.args.device = CudaDevice

C20_RunIdentityFixed ==
    /\ filename = generate_savename(PlainPrefix, {}, Date1).filename
    /\ \A path \in DOMAIN ckptFiles :
           StartsWith(path, filename \o <<"/">> \o filename \o <<"_", "e", "p", "s">>)

\* a finished run that wrote checkpoints at several episodes and the final
\* save
C20_Witness ==
    /\ trainPc = "done"
    /\ trainArgs.agent_count = 2
    /\ Cardinality(DOMAIN ckptFiles) >= 6
    /\ filename = generate_savename(PlainPrefix, {}, Date1).filename

(***************************************************************************)
(* Claims about the Logger in eval mode (checked under SpecEval).          *)
(***************************************************************************)
\* C21: an eval Logger leaves the filesystem unchanged: its construction
\* creates no log directory and no log file, and every sequence of
\* log(rewards) and step() calls made without a multi_agent and without an
\* episode number ends without error and writes no score or loss line,
\* while the rewards are accumulated and each episode's score is recorded.
C21_EvalLeavesFilesAlone ==
    (logPc # "none" /\ logArgs.eval) =>
        /\ logPc = "ready"
        /\ plotErr = "none"
        /\ logFS = <<>>
        /\ saveDirEntries = initialEntries
        /\ rewards = loggedSince
        /\ Len(episodeScores) = stepCalls
        /\ stepCalls > 0 =>
               /\ Len(scores) > 0
               /\ scores[Len(scores)] = episodeScores[stepCalls]

\* an eval Logger of two agents after two episodes and a further timestep
C21_Witness ==
    /\ logPc = "ready"
    /\ logArgs.eval
    /\ logArgs.agent_count = 2
    /\ stepCalls = 2
    /\ logCalls = 3
    /\ episodeScores = <<10, 0 - 1>>
    /\ rewards = <<10, 0>>
    /\ logFS = <<>>

=============================================================================
